---- MODULE Spec2Model ----
(***************************************************************************)
(* Model of the ns-3 topology builder / single-flow experiment of leoviz   *)
(* (networksim/scripts).  Two programs are modelled, selected by the       *)
(* variable `variant`:                                                     *)
(*   "satsim"   - run()/main() of src/unnamed/part_004 lines 108-251       *)
(*   "yamltest" - run()/main() of                                          *)
(*                src/networksim/scripts/yaml-test/yaml-test.cc 44-126     *)
(* The engine (ns-3.43) is external; its calls are modelled by what they   *)
(* do to the state the programs can observe.                               *)
(***************************************************************************)
EXTENDS Integers, Sequences, FiniteSets, TLC

\* ------------------------------------------------------------------ bounds
MaxNodes == 2
MaxLinks == 3
\* simulated seconds between two rounds of application events
Tick == 20
\* how many links beyond the 256 of the addressing scheme a config has
ExtraLinks == 1

\* ------------------------------------------------------------- input sets
NameSet == {"a", "b"}
\* a YAML node that is not defined: as<std::string>() throws on it
Undefined == "<undefined>"
Variants == {"satsim", "yamltest"}
\* what the command line gives as --config
ArgChoices == {"none", "unreadable", "good"}

\* the null Ptr<Node>; node handles are 1, 2, ... in creation order
NULL == 0

SeqsUpTo(S, n) == UNION {[1..k -> S] : k \in 0..n}

NodeSpecs == [name : NameSet \cup {Undefined}]
\* data_rate and delay strings of a link spec; "fast" is a string the
\* engine's DataRate checker cannot read
RateSet == {"5Mbps", "10Mbps", "fast", Undefined}
DelaySet == {"2ms", "5ms"}
DefaultRate == "5Mbps"
DefaultDelay == "2ms"

LinkSpecs == [source : NameSet, target : NameSet,
              data_rate : {DefaultRate}, delay : {DefaultDelay}]
               \cup {[source |-> Undefined, target |-> "a",
                      data_rate |-> DefaultRate, delay |-> DefaultDelay]}
\* link specs between two declared nodes, in either direction, that differ
\* in rate and delay
RateLinkSpecs ==
  {[source |-> e[1], target |-> e[2], data_rate |-> r, delay |-> d] :
     e \in {<<"a", "b">>, <<"b", "a">>}, r \in RateSet, d \in DelaySet}
Configs == [nodes : SeqsUpTo(NodeSpecs, MaxNodes),
            links : SeqsUpTo(LinkSpecs, MaxLinks)]
EmptyConfig == [nodes |-> <<>>, links |-> <<>>]

\* -------------------------------------------------------- program constants
\* Ipv4Address() of ns-3: 102.102.102.102, the uninitialised address
UnsetAddress == <<102, 102, 102, 102>>
port == 50000
\* exit statuses of a process ended by std::terminate / by SIGSEGV
AbortStatus == 134
SegvStatus == 139
\* largest value an address octet can hold
MaxOctet == 255

VARIABLES
  variant,      \* which program runs
  arg,          \* the --config option given on the command line
  cfg,          \* the YAML document behind the option
  pc,           \* position of the process
  i,            \* loop index of the node loop / link loop
  created,      \* number of Node objects created by CreateObject<Node>()
  nodes,        \* NodeContainer nodes (sequence of handles)
  names,        \* ns-3 Names registry: name -> handle
  nodeMap,      \* std::map nodeMap of yaml-test.cc: name -> handle
  stack,        \* handle -> number of internet stack installations
  links,        \* links created so far, in creation order
  linkCounter,  \* int linkCounter
  srcNode, dstNode,        \* Ptr<Node> srcNode, dstNode
  srcAddress, dstAddress,  \* Ipv4Address srcAddress, dstAddress
  pcaps,        \* EnablePcap calls made
  routingCount, \* number of PopulateRoutingTables calls
  apps,         \* applications installed
  stopAt,       \* Simulator::Stop time, -1 when not scheduled
  simRuns, simDestroys,    \* Simulator::Run / Simulator::Destroy calls
  life,         \* lifecycle states entered, in order
  defaults,     \* Config::SetDefault values in force
  devices,      \* NetDevices added to nodes (Node::AddDevice), in order
  now,          \* simulated time of the event loop, in seconds
  error,        \* kind of failure, "none" while there is none
  errorName,    \* the name the diagnostic carries ("" when none)
  failedAt,     \* pc at which the failure happened
  exitCode      \* process exit status, -1 while running

vars == <<variant, arg, cfg, pc, i, created, nodes, names, nodeMap, stack,
          links, linkCounter, srcNode, dstNode, srcAddress, dstAddress,
          pcaps, routingCount, apps, stopAt, simRuns, simDestroys, life,
          defaults, devices, now, error, errorName, failedAt, exitCode>>

engineVars == <<created, nodes, names, nodeMap, stack, links, linkCounter,
                srcNode, dstNode, srcAddress, dstAddress, pcaps,
                routingCount, apps, stopAt, simRuns, simDestroys, life,
                defaults, devices, now>>

\* the attribute defaults of ns-3.43 before any Config::SetDefault
EngineDefaults == [socketType |-> "ns3::TcpCubic", segmentSize |-> 536,
                   sack |-> TRUE]
\* Config::SetDefault calls of run()
TcpDefaults == [socketType |-> "ns3::TcpLinuxReno", segmentSize |-> 1446,
                sack |-> TRUE]

EmptyMap == [n \in {} |-> NULL]

\* the process at the entry of main, before any statement has run
InitState ==
  /\ pc = "main"
  /\ i = 0
  /\ created = 0
  /\ nodes = <<>>
  /\ names = EmptyMap
  /\ nodeMap = EmptyMap
  /\ stack = EmptyMap
  /\ links = <<>>
  /\ linkCounter = 0
  /\ srcNode = NULL
  /\ dstNode = NULL
  /\ srcAddress = UnsetAddress
  /\ dstAddress = UnsetAddress
  /\ pcaps = {}
  /\ routingCount = 0
  /\ apps = {}
  /\ stopAt = -1
  /\ simRuns = 0
  /\ simDestroys = 0
  /\ life = <<>>
  /\ defaults = EngineDefaults
  /\ devices = <<>>
  /\ now = 0
  /\ error = "none"
  /\ errorName = ""
  /\ failedAt = ""
  /\ exitCode = -1

Init ==
  /\ variant \in Variants
  /\ arg \in ArgChoices
  /\ cfg \in IF arg = "good" THEN Configs ELSE {EmptyConfig}
  /\ InitState

\* configs around the capacity of the addressing scheme: two nodes and
\* MaxOctet .. MaxOctet + 1 + ExtraLinks links between them
LongConfigs ==
  {[nodes |-> <<[name |-> "a"], [name |-> "b"]>>,
    links |-> [k \in 1..n |->
                 IF k % 2 = 1
                 THEN [source |-> "a", target |-> "b",
                       data_rate |-> DefaultRate, delay |-> DefaultDelay]
                 ELSE [source |-> "b", target |-> "a",
                       data_rate |-> DefaultRate, delay |-> DefaultDelay]]] :
     n \in MaxOctet..(MaxOctet + 1 + ExtraLinks)}

InitLong ==
  /\ variant \in Variants
  /\ arg = "good"
  /\ cfg \in LongConfigs
  /\ InitState

\* configs with two nodes whose links differ in direction, rate and delay
RateConfigs ==
  [nodes : {<<[name |-> "a"], [name |-> "b"]>>},
   links : SeqsUpTo(RateLinkSpecs, MaxLinks)]

InitRates ==
  /\ variant \in Variants
  /\ arg = "good"
  /\ cfg \in RateConfigs
  /\ InitState

\* ------------------------------------------------------------ failures
\* variation of CatchHandler: the handler logs and falls through to the
\* code after the try block
CatchAndContinue(kind, name) ==
  /\ pc' = "main_run"
  /\ exitCode' = exitCode
  /\ error' = kind
  /\ errorName' = name
  /\ failedAt' = pc

\* catch (const std::exception& e) { NS_LOG_ERROR(...); return 1; }
CatchHandler(kind, name) ==
  /\ pc' = "exited"
  /\ exitCode' = 1
  /\ error' = kind
  /\ errorName' = name
  /\ failedAt' = pc

\* NS_ABORT_MSG / NS_ASSERT failure: std::terminate, never caught by main
Abort(kind, name, status) ==
  /\ pc' = "aborted"
  /\ exitCode' = status
  /\ error' = kind
  /\ errorName' = name
  /\ failedAt' = pc

\* operator-> on a null Ptr<>: NS_ASSERT aborts in a build with asserts,
\* a build without them faults on the access
NullDerefOutcomes == {AbortStatus, SegvStatus}
NullDeref ==
  \E status \in NullDerefOutcomes : Abort("NullPointer", "", status)

Running == pc \notin {"exited", "aborted"}

\* ------------------------------------------------------------ main
\* ReadYamlConfig(configFile): the document, or an exception
ReadYamlConfig(a) ==
  IF a = "good" THEN [ok |-> TRUE, doc |-> cfg]
  ELSE [ok |-> FALSE, doc |-> EmptyConfig]

\* variation of RunEntry: run() starts at the node loop in both programs
RunEntryNoDefaults(v) == "nodes"

\* where run() starts
RunEntry(v) == IF v = "satsim" THEN "setdefaults" ELSE "nodes"

Main ==
  /\ pc = "main"
  /\ IF ReadYamlConfig(arg).ok
     THEN /\ pc' = RunEntry(variant)
          /\ life' = Append(life, "CONFIGURED")
          /\ UNCHANGED <<error, errorName, failedAt, exitCode>>
     ELSE /\ CatchHandler("ConfigParseError", "")
          /\ UNCHANGED life
  /\ UNCHANGED <<variant, arg, cfg, i, created, nodes, names, nodeMap, stack,
                 links, linkCounter, srcNode, dstNode, srcAddress,
                 dstAddress, pcaps, routingCount, apps, stopAt, simRuns,
                 simDestroys, defaults,
                 devices, now>>

\* ------------------------------------------------------------ run()
NoFailure == UNCHANGED <<error, errorName, failedAt, exitCode>>

SetDefaults ==
  /\ pc = "setdefaults"
  /\ defaults' = TcpDefaults
  /\ pc' = "nodes"
  /\ NoFailure
  /\ UNCHANGED <<variant, arg, cfg, i, created, nodes, names, nodeMap, stack,
                 links, linkCounter, srcNode, dstNode, srcAddress,
                 dstAddress, pcaps, routingCount, apps, stopAt, simRuns,
                 simDestroys, life,
                 devices, now>>

\* variation of CreateNode: the same object is handed out every time
CreateNodeReused(n) == 1

\* CreateObject<Node>(): a fresh handle
CreateNode(n) == n + 1

\* variation of NamesAddOk: a name already present is accepted
NamesAddAlways(reg, name) == TRUE

\* Names::Add(name, obj): NamesPriv::Add refuses a name already present
\* and Names::Add then aborts; otherwise the entry is added
NamesAddOk(reg, name) == name \notin DOMAIN reg

MapPut(m, k, v) == [x \in DOMAIN m \cup {k} |-> IF x = k THEN v ELSE m[x]]

NamesAdd(reg, name, h) == MapPut(reg, name, h)

\* Names::Find<Node>(name): the handle, or a null Ptr when absent
NamesFind(reg, name) == IF name \in DOMAIN reg THEN reg[name] ELSE NULL

\* std::map::operator[]: inserts a null Ptr for an absent key
MapIndex(m, k) == IF k \in DOMAIN m THEN m ELSE MapPut(m, k, NULL)

\* variation of IsLast: the first position is taken for the last
IsLastAsFirst(idx, size) == idx = 0

\* variation of IsFirst: every position is taken for the first
IsFirstAlways(idx) == TRUE

\* if (i == 0) / if (i == configNodes.size() - 1), i zero-based
IsFirst(idx) == idx = 0
IsLast(idx, size) == idx = size - 1

NodeStep ==
  /\ pc = "nodes"
  /\ i < Len(cfg.nodes)
  /\ LET nodeName == cfg.nodes[i + 1].name
         newNode == CreateNode(created)
         size == Len(cfg.nodes)
     IN /\ created' = newNode
        /\ IF nodeName = Undefined
           THEN \* node["name"].as<std::string>() throws
                /\ CatchHandler("YamlException", "")
                /\ UNCHANGED <<i, nodes, names, nodeMap, srcNode, dstNode>>
           ELSE /\ nodeMap' = IF variant = "yamltest"
                               THEN MapPut(nodeMap, nodeName, newNode)
                               ELSE nodeMap
                /\ IF ~NamesAddOk(names, nodeName)
                   THEN /\ Abort("DuplicateName", nodeName, AbortStatus)
                        /\ UNCHANGED <<i, nodes, names, srcNode, dstNode>>
                   ELSE /\ names' = NamesAdd(names, nodeName, newNode)
                        /\ nodes' = Append(nodes, newNode)
                        /\ srcNode' = IF variant = "satsim" /\ IsFirst(i)
                                       THEN newNode ELSE srcNode
                        /\ dstNode' = IF variant = "satsim" /\ IsLast(i, size)
                                       THEN newNode ELSE dstNode
                        /\ i' = i + 1
                        /\ UNCHANGED pc
                        /\ NoFailure
  /\ UNCHANGED <<variant, arg, cfg, stack, links, linkCounter, srcAddress,
                 dstAddress, pcaps, routingCount, apps, stopAt, simRuns,
                 simDestroys, life, defaults,
                 devices, now>>

\* variation of InstallStackOn: only the first node of the container
InstallStackOnFirst(st, c) ==
  [h \in DOMAIN st \cup {c[k] : k \in 1..Len(c) \cap {1}} |->
     (IF h \in DOMAIN st THEN st[h] ELSE 0) + 1]

\* internetStack.Install(nodes): once on every node of the container
InstallStackOn(st, c) ==
  [h \in DOMAIN st \cup {c[k] : k \in 1..Len(c)} |->
     (IF h \in DOMAIN st THEN st[h] ELSE 0)
       + Cardinality({k \in 1..Len(c) : c[k] = h})]

InstallStack ==
  /\ pc = "nodes"
  /\ i = Len(cfg.nodes)
  /\ stack' = InstallStackOn(stack, nodes)
  /\ pc' = "links"
  /\ i' = 0
  /\ NoFailure
  /\ UNCHANGED <<variant, arg, cfg, created, nodes, names, nodeMap, links,
                 linkCounter, srcNode, dstNode, srcAddress, dstAddress,
                 pcaps, routingCount, apps, stopAt, simRuns, simDestroys,
                 life, defaults,
                 devices, now>>

\* variation of SubnetString: the counter is left out of the string
SubnetStringFixed(c) == <<10, 1, 0, 0>>

\* "10.1." + std::to_string(linkCounter) + ".0", as its four fields
SubnetString(c) == <<10, 1, c, 0>>

\* variation of ParseOk: any number is taken for an octet
ParseAny(a) == TRUE

\* Ipv4Address(const char*): inet_pton accepts only octets 0..255
ParseOk(a) == \A k \in 1..4 : a[k] \in 0..MaxOctet

\* variation of HostAddress: host numbers start at the network base
HostAddressFromBase(net, k) == <<net[1], net[2], net[3], net[4] + k - 1>>

\* Ipv4AddressHelper::NewAddress: the k-th host of the /24 network (base
\* 0.0.0.1), k = 1 for the first device assigned
HostAddress(net, k) == <<net[1], net[2], net[3], net[4] + k>>

\* variation of AssignAddresses: the devices are served in reverse order
AssignAddressesSwapped(net) == <<HostAddress(net, 2), HostAddress(net, 1)>>

\* Ipv4AddressHelper::Assign(linkDevices): device 0 then device 1
AssignAddresses(net) == <<HostAddress(net, 1), HostAddress(net, 2)>>

\* how a link spec's endpoint names are resolved to handles:
\* Names::Find<Node> in satsim, nodeMap[...] in yaml-test
Resolve(v, name) ==
  IF v = "satsim" THEN NamesFind(names, name)
  ELSE NamesFind(nodeMap, name)

\* variation of PcapsOf: capture on every link
PcapsOfEvery(idx, size, a, b) ==
  {[prefix |-> "src_", link |-> idx, dev |-> 0, node |-> a],
   [prefix |-> "dst_", link |-> idx, dev |-> 1, node |-> b]}

\* the p2p.EnablePcap calls of link idx among size links with devices on
\* nodes a (device 0) and b (device 1)
PcapsOf(idx, size, a, b) ==
  (IF IsFirst(idx)
     THEN {[prefix |-> "src_", link |-> idx, dev |-> 0, node |-> a]}
     ELSE {})
  \cup
  (IF IsLast(idx, size)
     THEN {[prefix |-> "dst_", link |-> idx, dev |-> 1, node |-> b]}
     ELSE {})

NoSubnet == <<>>

\* variation of NextCounter: the counter is advanced twice per link
NextCounterTwice(c) == c + 2

\* linkCounter++
NextCounter(c) == c + 1

\* p2p.Install(linkNodes) = Install(a, b): a device is created and added
\* to a (a->AddDevice), then one is created and added to b; the call does
\* not get past the first null handle it uses
P2PInstall(devs, idx, a, b) ==
  devs
  \o (IF a # NULL
       THEN <<[node |-> a, link |-> idx, end |-> 0]>> ELSE <<>>)
  \o (IF a # NULL /\ b # NULL
       THEN <<[node |-> b, link |-> idx, end |-> 1]>> ELSE <<>>)

\* variation of DeviceAttribute: the helper keeps the rate of the first
\* link spec
DeviceAttributeOfFirst(ls, k) == ls[1].data_rate

\* the string p2p.SetDeviceAttribute("DataRate", ...) is given for link
\* spec k: StringValue(link["data_rate"].as<std::string>())
DeviceAttribute(ls, k) == ls[k].data_rate

\* the string p2p.SetChannelAttribute("Delay", ...) is given
ChannelAttribute(ls, k) == ls[k].delay

\* the engine's attribute checker reads the string when the helper stores
\* it; it ends the process on a string it cannot read
AttributeOk(str) == str # "fast"

LinkStep ==
  /\ pc = "links"
  /\ i < Len(cfg.links)
  /\ LET link == cfg.links[i + 1]
         size == Len(cfg.links)
         a == Resolve(variant, link.source)
         b == Resolve(variant, link.target)
         rate == DeviceAttribute(cfg.links, i + 1)
         delay == ChannelAttribute(cfg.links, i + 1)
         subnet == SubnetString(linkCounter)
         addrs == AssignAddresses(subnet)
     IN IF link.source = Undefined
        THEN \* link["source"].as<std::string>() throws
             /\ CatchHandler("YamlException", "")
             /\ UNCHANGED <<i, nodeMap, links, linkCounter, srcAddress,
                            dstAddress, pcaps, devices>>
        ELSE /\ nodeMap' = IF variant = "yamltest"
                            THEN MapIndex(MapIndex(nodeMap, link.source),
                                          link.target)
                            ELSE nodeMap
             /\ IF rate = Undefined \/ delay = Undefined
                THEN \* link["data_rate"].as<std::string>() throws
                     /\ CatchHandler("YamlException", "")
                     /\ UNCHANGED <<i, links, linkCounter, srcAddress,
                                    dstAddress, pcaps, devices>>
                ELSE IF ~AttributeOk(rate) \/ ~AttributeOk(delay)
                THEN \* p2p.SetDeviceAttribute / SetChannelAttribute: the
                     \* engine cannot read the string
                     /\ Abort("BadAttribute",
                              IF AttributeOk(rate) THEN delay ELSE rate,
                              AbortStatus)
                     /\ UNCHANGED <<i, links, linkCounter, srcAddress,
                                    dstAddress, pcaps, devices>>
                ELSE /\ devices' = P2PInstall(devices, i, a, b)
                     /\ IF a = NULL \/ b = NULL
                        THEN \* p2p.Install uses the null Ptr<Node>
                             /\ NullDeref
                             /\ UNCHANGED <<i, links, linkCounter, srcAddress,
                                            dstAddress, pcaps>>
                        ELSE /\ linkCounter' = NextCounter(linkCounter)
                             /\ IF ~ParseOk(subnet)
                                THEN \* ipv4.SetBase: the Ipv4Address cannot be built
                                     /\ Abort("BadAddress", "", AbortStatus)
                                     /\ links' = Append(links,
                                           [index |-> i, a |-> a, b |-> b,
                                            rate |-> rate, delay |-> delay,
                                            subnet |-> NoSubnet, addrs |-> <<>>])
                                     /\ UNCHANGED <<i, srcAddress, dstAddress, pcaps>>
                                ELSE /\ links' = Append(links,
                                           [index |-> i, a |-> a, b |-> b,
                                            rate |-> rate, delay |-> delay,
                                            subnet |-> subnet, addrs |-> addrs])
                                     /\ IF variant = "satsim"
                                        THEN /\ srcAddress' = IF IsFirst(i)
                                                              THEN addrs[1]
                                                              ELSE srcAddress
                                             /\ dstAddress' = IF IsLast(i, size)
                                                              THEN addrs[2]
                                                              ELSE dstAddress
                                             /\ pcaps' = pcaps \cup
                                                           PcapsOf(i, size, a, b)
                                        ELSE UNCHANGED <<srcAddress, dstAddress,
                                                         pcaps>>
                                     /\ i' = i + 1
                                     /\ UNCHANGED pc
                                     /\ NoFailure
  /\ UNCHANGED <<variant, arg, cfg, created, nodes, names, stack, srcNode,
                 dstNode, routingCount, apps, stopAt, simRuns, simDestroys,
                 life, defaults, now>>

\* variation of AfterLinks: applications are installed right after the loop
AfterLinksNoRouting(v) == IF v = "satsim" THEN "sender" ELSE "run"

\* what follows the link loop: PopulateRoutingTables in satsim,
\* Simulator::Run in yaml-test
AfterLinks(v) == IF v = "satsim" THEN "routing" ELSE "run"

LinksDone ==
  /\ pc = "links"
  /\ i = Len(cfg.links)
  /\ pc' = AfterLinks(variant)
  /\ life' = Append(life, "BUILT")
  /\ NoFailure
  /\ UNCHANGED <<variant, arg, cfg, i, created, nodes, names, nodeMap, stack,
                 links, linkCounter, srcNode, dstNode, srcAddress,
                 dstAddress, pcaps, routingCount, apps, stopAt, simRuns,
                 simDestroys, defaults,
                 devices, now>>

\* Ipv4GlobalRoutingHelper::PopulateRoutingTables()
PopulateRoutingTables ==
  /\ pc = "routing"
  /\ routingCount' = routingCount + 1
  /\ life' = Append(life, "ROUTED")
  /\ pc' = "sender"
  /\ NoFailure
  /\ UNCHANGED <<variant, arg, cfg, i, created, nodes, names, nodeMap, stack,
                 links, linkCounter, srcNode, dstNode, srcAddress,
                 dstAddress, pcaps, apps, stopAt, simRuns, simDestroys,
                 defaults,
                 devices, now>>

\* sendHelper attributes: MaxBytes 0 means no limit on the transfer
MaxBytes == 0
SendSize == 1024

\* the node an application helper installs on
SenderNode == srcNode
SinkNode == dstNode

\* sendHelper.Install(srcNode)
InstallSender ==
  /\ pc = "sender"
  /\ IF SenderNode = NULL
     THEN /\ NullDeref
          /\ UNCHANGED apps
     ELSE /\ apps' = apps \cup
                 {[kind |-> "BulkSend", node |-> SenderNode,
                   remote |-> dstAddress, port |-> port,
                   tcp |-> defaults, start |-> -1,
                   maxBytes |-> MaxBytes, sendSize |-> SendSize]}
          /\ pc' = "sink"
          /\ NoFailure
  /\ UNCHANGED <<variant, arg, cfg, i, created, nodes, names, nodeMap, stack,
                 links, linkCounter, srcNode, dstNode, srcAddress,
                 dstAddress, pcaps, routingCount, stopAt, simRuns,
                 simDestroys, life, defaults,
                 devices, now>>

\* Ipv4Address::GetAny()
AnyAddress == <<0, 0, 0, 0>>

\* sinkHelper.Install(dstNode)
InstallSink ==
  /\ pc = "sink"
  /\ IF SinkNode = NULL
     THEN /\ NullDeref
          /\ UNCHANGED apps
     ELSE /\ apps' = apps \cup
                 {[kind |-> "PacketSink", node |-> SinkNode,
                   remote |-> AnyAddress, port |-> port,
                   tcp |-> defaults, start |-> -1]}
          /\ pc' = "schedule"
          /\ NoFailure
  /\ UNCHANGED <<variant, arg, cfg, i, created, nodes, names, nodeMap, stack,
                 links, linkCounter, srcNode, dstNode, srcAddress,
                 dstAddress, pcaps, routingCount, stopAt, simRuns,
                 simDestroys, life, defaults,
                 devices, now>>

StartTime == 0
StopTime == 60

\* variation of ScheduledStop: no stop event is scheduled
NoScheduledStop(t) == -1

\* Simulator::Stop(Seconds(t)): the stop event is queued for time t
ScheduledStop(t) == t

\* variation of StartApps: only the sender is given a start time
StartAppsSenderOnly(as, kind, t) ==
  {IF app.kind = "BulkSend" THEN [app EXCEPT !.start = t] ELSE app :
     app \in as}

\* ApplicationContainer::Start(t) on the container the helper of `kind`
\* returned: every application in it is given the start time t
StartApps(as, kind, t) ==
  {IF app.kind = kind THEN [app EXCEPT !.start = t] ELSE app : app \in as}

\* sinkApp.Start, tcpSender.Start, Simulator::Stop
Schedule ==
  /\ pc = "schedule"
  /\ apps' = StartApps(StartApps(apps, "PacketSink", StartTime),
                       "BulkSend", StartTime)
  /\ stopAt' = ScheduledStop(StopTime)
  /\ pc' = "run"
  /\ NoFailure
  /\ UNCHANGED <<variant, arg, cfg, i, created, nodes, names, nodeMap, stack,
                 links, linkCounter, srcNode, dstNode, srcAddress,
                 dstAddress, pcaps, routingCount, simRuns, simDestroys,
                 life, defaults,
                 devices, now>>

\* Simulator::Run() is entered at `at` and returns to `back`
SimRunBegin(at, inside) ==
  /\ pc = at
  /\ simRuns' = simRuns + 1
  /\ life' = Append(life, "RUNNING")
  /\ pc' = inside
  /\ NoFailure
  /\ UNCHANGED <<variant, arg, cfg, i, created, nodes, names, nodeMap, stack,
                 links, linkCounter, srcNode, dstNode, srcAddress,
                 dstAddress, pcaps, routingCount, apps, stopAt, simDestroys,
                 defaults,
                 devices, now>>

\* inside Simulator::Run(): the installed applications have events before
\* the stop event; events run in timestamp order and time moves on
RunEvent ==
  /\ pc = "running"
  /\ \E app \in apps : app.kind = "BulkSend" /\ app.maxBytes = 0
  /\ stopAt >= 0
  /\ now + Tick <= stopAt
  /\ now' = now + Tick
  /\ NoFailure
  /\ UNCHANGED <<variant, arg, cfg, pc, i, created, nodes, names, nodeMap,
                 stack, links, linkCounter, srcNode, dstNode, srcAddress,
                 dstAddress, pcaps, routingCount, apps, stopAt, simRuns,
                 simDestroys, life, defaults, devices>>

\* the event loop returns: the stop event is reached (time is then the
\* stop time), or no stop is queued and no application feeds the queue
SimRunEnd(inside, back) ==
  /\ pc = inside
  /\ \/ stopAt >= 0 /\ now' = stopAt
     \/ stopAt < 0 /\ apps = {} /\ now' = now
  /\ life' = Append(life, "STOPPED")
  /\ pc' = back
  /\ NoFailure
  /\ UNCHANGED <<variant, arg, cfg, i, created, nodes, names, nodeMap, stack,
                 links, linkCounter, srcNode, dstNode, srcAddress,
                 dstAddress, pcaps, routingCount, apps, stopAt, simRuns,
                 simDestroys, defaults, devices>>

\* Simulator::Destroy()
SimDestroy(at, back) ==
  /\ pc = at
  /\ simDestroys' = simDestroys + 1
  /\ life' = Append(life, "DESTROYED")
  /\ pc' = back
  /\ NoFailure
  /\ UNCHANGED <<variant, arg, cfg, i, created, nodes, names, nodeMap, stack,
                 links, linkCounter, srcNode, dstNode, srcAddress,
                 dstAddress, pcaps, routingCount, apps, stopAt, simRuns,
                 defaults,
                 devices, now>>

\* where main continues once run() has returned: return 0 in satsim,
\* Simulator::Run() again in yaml-test
AfterRun(v) == IF v = "satsim" THEN "return" ELSE "main_run"

RunSimulator == SimRunBegin("run", "running")
RunReturns == SimRunEnd("running", "destroy")
RunDestroy == SimDestroy("destroy", AfterRun(variant))
MainSimulator == SimRunBegin("main_run", "main_running")
MainReturns == SimRunEnd("main_running", "main_destroy")
MainDestroy == SimDestroy("main_destroy", "return")

\* return 0;
Return ==
  /\ pc = "return"
  /\ pc' = "exited"
  /\ exitCode' = 0
  /\ UNCHANGED <<variant, arg, cfg, i, error, errorName, failedAt,
                 devices, now>>
  /\ UNCHANGED engineVars

Next ==
  \/ Main
  \/ SetDefaults
  \/ NodeStep
  \/ InstallStack
  \/ LinkStep
  \/ LinksDone
  \/ PopulateRoutingTables
  \/ InstallSender
  \/ InstallSink
  \/ Schedule
  \/ RunSimulator
  \/ RunEvent
  \/ RunReturns
  \/ RunDestroy
  \/ MainSimulator
  \/ MainReturns
  \/ MainDestroy
  \/ Return

Spec == Init /\ [][Next]_vars

\* the same programs on the configs of LongConfigs
SpecLong == InitLong /\ [][Next]_vars

\* the same programs on the configs of RateConfigs
SpecRates == InitRates /\ [][Next]_vars

\* the process is one sequential thread: a step that can be taken is taken
FairSpec == Spec /\ WF_vars(Next)

\* =================================================================
\* Properties
\* =================================================================
NodeCount == Len(cfg.nodes)
LinkCount == Len(cfg.links)
Declared == {cfg.nodes[k].name : k \in 1..NodeCount} \ {Undefined}

\* node names all present and pairwise different
UniqueNodeNames ==
  /\ arg = "good"
  /\ \A k \in 1..NodeCount : cfg.nodes[k].name # Undefined
  /\ \A j, k \in 1..NodeCount :
        cfg.nodes[j].name = cfg.nodes[k].name => j = k

LinkDeclared(l) == l.source \in Declared /\ l.target \in Declared

\* unique node names, declared link endpoints, and no more links than the
\* addressing scheme has subnets
ValidConfig ==
  /\ UniqueNodeNames
  /\ \A k \in 1..LinkCount : LinkDeclared(cfg.links[k])
  /\ LinkCount <= MaxOctet + 1

Failed == error # "none"

\* the node loop has run to its end
PastNodeLoop ==
  \/ pc = "nodes" /\ i = NodeCount
  \/ pc \in {"links", "routing", "sender", "sink", "schedule", "run",
             "running", "destroy", "main_run", "main_running",
             "main_destroy", "return"}
  \/ ~Running /\ failedAt \in {"links", "sender", "sink"}
  \/ pc = "exited" /\ exitCode = 0

\* the link loop has run to its end
PastLinkLoop ==
  \/ pc = "links" /\ i = LinkCount
  \/ pc \in {"routing", "sender", "sink", "schedule", "run", "running",
             "destroy", "main_run", "main_running", "main_destroy",
             "return"}
  \/ ~Running /\ failedAt \in {"sender", "sink"}
  \/ pc = "exited" /\ exitCode = 0

Range(f) == {f[x] : x \in DOMAIN f}
Injective(f) == \A x, y \in DOMAIN f : f[x] = f[y] => x = y

\* C1: for a config with unique node names, once the node loop is over the
\* number of created nodes equals the number of node specs and the name
\* registry is a bijection between the declared names and the created
\* nodes, the k-th declared name mapping to the k-th created node.
C1_NodesAndRegistryBijection ==
  (UniqueNodeNames /\ PastNodeLoop) =>
     /\ created = NodeCount
     /\ Len(nodes) = NodeCount
     /\ DOMAIN names = Declared
     /\ Injective(names)
     /\ Range(names) = Range(nodes)
     /\ Cardinality(Range(nodes)) = NodeCount
     /\ \A k \in 1..NodeCount : names[cfg.nodes[k].name] = nodes[k]
     /\ (variant = "yamltest" /\ pc = "nodes") => nodeMap = names

C1_Witness ==
  /\ UniqueNodeNames
  /\ NodeCount = 2
  /\ pc = "links"
  /\ DOMAIN names = {"a", "b"}

\* C2: for a valid config the link created at index k is assigned subnet
\* 10.1.k.0/24; after the link loop no two links share a subnet and the
\* assigned indices are exactly 0 .. number of links - 1.
C2_SubnetPerLinkIndex ==
  ValidConfig =>
     /\ \A k \in 1..Len(links) :
           /\ links[k].index = k - 1
           /\ links[k].subnet = <<10, 1, k - 1, 0>>
     /\ PastLinkLoop =>
           /\ Len(links) = LinkCount
           /\ \A j, k \in 1..Len(links) :
                 links[j].subnet = links[k].subnet => j = k
           /\ {links[k].subnet[3] : k \in 1..Len(links)} = 0..(LinkCount - 1)

C2_Witness ==
  /\ ValidConfig
  /\ PastLinkLoop
  /\ Len(links) = 3
  /\ links[3].subnet = <<10, 1, 2, 0>>

\* the link spec the link loop stopped at
FailedLink == cfg.links[i + 1]

\* C3 (as claimed): when a link spec names an endpoint that is not a
\* declared node, the build fails with ReferenceError at that link and
\* nothing the build created (nodes, registry entries, links) is left.
C3_ReferenceErrorAtomic ==
  (/\ ~Running
   /\ failedAt = "links"
   /\ i < LinkCount
   /\ FailedLink.source # Undefined
   /\ ~LinkDeclared(FailedLink))
  => /\ error = "ReferenceError"
     /\ nodes = <<>>
     /\ links = <<>>
     /\ names = EmptyMap
     /\ nodeMap = EmptyMap

\* position (1-based) of the first node spec whose name repeats an earlier
\* one, 0 when there is none
FirstRepeat ==
  LET reps == {k \in 1..NodeCount :
                 \E j \in 1..(k - 1) : cfg.nodes[j].name = cfg.nodes[k].name}
  IN IF reps = {} THEN 0
     ELSE CHOOSE k \in reps : \A m \in reps : k <= m

\* the duplicate is the first thing wrong with the node list
DuplicateFirst ==
  /\ arg = "good"
  /\ FirstRepeat # 0
  /\ \A k \in 1..FirstRepeat : cfg.nodes[k].name # Undefined

\* position of the first node spec carrying name n
FirstWithName(n) ==
  CHOOSE k \in 1..NodeCount :
     /\ cfg.nodes[k].name = n
     /\ \A j \in 1..(k - 1) : cfg.nodes[j].name # n

\* C4: a config that declares a node name twice fails at the first
\* repeated name with a duplicate-name failure naming it, before any link
\* spec is processed; an entry of the registry always holds the first node
\* declared under its name (the lookup map of yaml-test too, as long as the
\* process runs).
C4_DuplicateNameFailsBeforeLinks ==
  /\ \A n \in DOMAIN names : names[n] = FirstWithName(n)
  /\ Running =>
        \A n \in DOMAIN nodeMap :
           nodeMap[n] # NULL => nodeMap[n] = FirstWithName(n)
  /\ DuplicateFirst =>
        /\ pc \in {"main", "setdefaults", "nodes", "aborted"}
        /\ i < FirstRepeat
        /\ links = <<>> /\ linkCounter = 0
        /\ pc = "aborted" =>
              /\ error = "DuplicateName"
              /\ errorName = cfg.nodes[FirstRepeat].name
              /\ failedAt = "nodes"
              /\ i = FirstRepeat - 1
              /\ Len(nodes) = FirstRepeat - 1

C4_Witness ==
  /\ pc = "aborted"
  /\ error = "DuplicateName"
  /\ errorName = "a"
  /\ LinkCount > 0
  /\ names = [n \in {"a"} |-> 1]

\* C5: global route computation is invoked at most once, only when every
\* link spec has been turned into an addressed link, and before the sender
\* and the receiver are installed; a run of the experiment program that
\* completes has invoked it exactly once.
C5_RoutingOnceAfterLinksBeforeApps ==
  /\ routingCount <= 1
  /\ routingCount = 1 =>
        /\ Len(links) = LinkCount
        /\ \A k \in 1..Len(links) : Len(links[k].addrs) = 2
        /\ "BUILT" \in Range(life)
  /\ pc = "routing" => apps = {}
  /\ apps # {} => routingCount = 1
  /\ (variant = "satsim" /\ pc = "exited" /\ exitCode = 0) =>
        routingCount = 1

C5_Witness ==
  /\ variant = "satsim"
  /\ routingCount = 1
  /\ Cardinality(apps) = 2
  /\ Len(links) = 2

\* C6: packet capture is enabled on link 0 and on the last link and on no
\* other link; with three links the middle one is never captured.
C6_CaptureOnlyFirstAndLastLink ==
  /\ \A p \in pcaps : p.link = 0 \/ p.link = LinkCount - 1
  /\ (variant = "satsim" /\ PastLinkLoop /\ LinkCount >= 1) =>
        {p.link : p \in pcaps} = {0, LinkCount - 1}

C6_Witness ==
  /\ variant = "satsim"
  /\ PastLinkLoop
  /\ LinkCount = 3
  /\ {p.link : p \in pcaps} = {0, 2}

\* every link joins two different nodes
SimpleLinks == \A k \in 1..LinkCount : cfg.links[k].source # cfg.links[k].target

\* C7 (as claimed): the device captured under the source prefix is on the
\* source node and the one captured under the destination prefix is on
\* the destination node, for every valid config (already for those whose
\* links all join two different nodes).
C7_CapturedDevicesOnEndpoints ==
  (ValidConfig /\ SimpleLinks) =>
     \A p \in pcaps :
        /\ p.prefix = "src_" => p.node = srcNode
        /\ p.prefix = "dst_" => p.node = dstNode

\* C8: the sender is installed on the node created first and the receiver
\* on the node created last, by position in topology.nodes.
C8_RolesByPosition ==
  \A app \in apps :
     /\ Len(nodes) = NodeCount
     /\ NodeCount >= 1
     /\ app.kind = "BulkSend" => app.node = nodes[1]
     /\ app.kind = "PacketSink" => app.node = nodes[NodeCount]

C8_Witness ==
  /\ NodeCount = 2
  /\ cfg.nodes[1].name = "b"
  /\ \E s, r \in apps :
        /\ s.kind = "BulkSend" /\ s.node = 1
        /\ r.kind = "PacketSink" /\ r.node = 2

\* the build did not reach its end
BuildFailed == Failed /\ failedAt \in {"main", "nodes", "links"}

\* state part of C9: after a build failure the process has ended, routing
\* is not activated, no application is installed, no stop is scheduled and
\* the event loop is not started.
C9_StateAfterBuildFailure ==
  BuildFailed =>
     /\ ~Running
     /\ routingCount = 0
     /\ apps = {}
     /\ stopAt = -1
     /\ simRuns = 0 /\ simDestroys = 0
     /\ Range(life) \subseteq {"CONFIGURED"}

\* C9, whole statement: the state above holds whenever the build has
\* failed, and no step taken after a build failure changes anything the
\* engine holds (no routing, application, capture or event-loop step).
C9_NoStepAfterBuildFailure ==
  []C9_StateAfterBuildFailure
  /\ [][BuildFailed => UNCHANGED engineVars]_vars

C9_Witness ==
  /\ BuildFailed
  /\ failedAt = "links"
  /\ Len(links) = 1
  /\ pcaps # {}

\* rank of a lifecycle state
Rank(st) ==
  CASE st = "CONFIGURED" -> 1
    [] st = "BUILT" -> 2
    [] st = "ROUTED" -> 3
    [] st = "RUNNING" -> 4
    [] st = "STOPPED" -> 5
    [] st = "DESTROYED" -> 6

\* C10 (as claimed): lifecycle states are entered in the order CONFIGURED,
\* BUILT, ROUTED, RUNNING, STOPPED, DESTROYED, never backwards and none
\* twice; the event loop is run and the engine destroyed at most once.
C10_LifecycleForwardOnly ==
  /\ \A j, k \in 1..Len(life) : j < k => Rank(life[j]) < Rank(life[k])
  /\ simRuns <= 1
  /\ simDestroys <= 1

\* C11 (as claimed): the exit status is 0 exactly when the run completed
\* without failure, and 1 after any failure.
C11_ExitCodeZeroOrOne ==
  ~Running =>
     /\ exitCode = 0 <=> error = "none"
     /\ error # "none" => exitCode = 1

\* links that got a subnet
Addressed == {k \in 1..Len(links) : links[k].subnet # NoSubnet}

\* C12: a config with more than 256 links fails when the link with index
\* 256 is reached (the address 10.1.256.0 is refused), the build is never
\* completed, every subnet assigned has its third octet in 0..255 and
\* equals 10.1.k.0 for the link's index k, and no subnet is used twice.
C12_AddressSpaceExhausted ==
  /\ \A k \in Addressed :
        /\ links[k].subnet[3] \in 0..MaxOctet
        /\ links[k].subnet = <<10, 1, k - 1, 0>>
  /\ Cardinality({links[k].subnet : k \in Addressed}) = Cardinality(Addressed)
  /\ LinkCount > MaxOctet + 1 =>
        /\ ~PastLinkLoop
        /\ i <= MaxOctet + 1
        /\ Cardinality(Addressed) <= MaxOctet + 1
        /\ ~Running =>
              /\ pc = "aborted"
              /\ error = "BadAddress"
              /\ failedAt = "links"
              /\ i = MaxOctet + 1
              /\ Addressed = 1..(MaxOctet + 1)

C12_Witness ==
  /\ LinkCount = MaxOctet + 2
  /\ pc = "aborted"
  /\ error = "BadAddress"
  /\ i = MaxOctet + 1
  /\ links[MaxOctet + 1].subnet = <<10, 1, MaxOctet, 0>>

\* C13: for every link the node named by source holds device 0 and gets
\* the first host address 10.1.k.1 of the link's subnet, the node named by
\* target holds device 1 and gets the second, 10.1.k.2.
C13_SourceFirstTargetSecond ==
  \A k \in Addressed :
     LET l == cfg.links[k]
         dev(e) == {d \in Range(devices) : d.link = k - 1 /\ d.end = e}
     IN /\ links[k].a = names[l.source]
        /\ links[k].b = names[l.target]
        /\ dev(0) = {[node |-> names[l.source], link |-> k - 1, end |-> 0]}
        /\ dev(1) = {[node |-> names[l.target], link |-> k - 1, end |-> 1]}
        /\ links[k].addrs[1] = <<10, 1, k - 1, 1>>
        /\ links[k].addrs[2] = <<10, 1, k - 1, 2>>

C13_Witness ==
  /\ Len(links) = 2
  /\ cfg.links[1].source = "a" /\ cfg.links[1].target = "b"
  /\ cfg.links[2].source = "b" /\ cfg.links[2].target = "a"
  /\ names = [n \in {"a", "b"} |-> IF n = "a" THEN 1 ELSE 2]
  /\ links[1].a = 1 /\ links[1].addrs[1] = <<10, 1, 0, 1>>
  /\ links[2].a = 2 /\ links[2].addrs[1] = <<10, 1, 1, 1>>
  /\ links[2].b = 1 /\ links[2].addrs[2] = <<10, 1, 1, 2>>

\* an object of the engine exists: a node, a device or an application
ObjectsExist == created > 0 \/ devices # <<>> \/ apps # {}

\* state part of C14: in the experiment program the transport defaults
\* are in force whenever an object exists, and every application was
\* created under them.
C14_DefaultsInForce ==
  /\ (variant = "satsim" /\ ObjectsExist) => defaults = TcpDefaults
  /\ \A app \in apps : app.tcp = TcpDefaults

\* C14: the transport defaults are set before any node, device or
\* application object is created and are not changed once the node loop
\* has been entered, so every object is created under the same snapshot.
C14_DefaultsSetFirstNeverChanged ==
  []C14_DefaultsInForce
  /\ [][(ObjectsExist \/ pc \notin {"main", "setdefaults"})
          => defaults' = defaults]_vars

C14_Witness ==
  /\ created = 2
  /\ Cardinality(apps) = 2
  /\ \A app \in apps : app.tcp.socketType = "ns3::TcpLinuxReno"
  /\ defaults # EngineDefaults

\* internetStack.Install(nodes) has been executed
PastStackInstall ==
  \/ pc \in {"links", "routing", "sender", "sink", "schedule", "run",
             "running", "destroy", "main_run", "main_running",
             "main_destroy", "return"}
  \/ ~Running /\ failedAt \in {"links", "sender", "sink"}
  \/ pc = "exited" /\ exitCode = 0

\* state part of C15: no node has the stack installed more than once, and
\* once the installation statement has run every node of the container
\* has it exactly once.
C15_StackOncePerNode ==
  /\ \A h \in DOMAIN stack : stack[h] = 1
  /\ PastStackInstall => DOMAIN stack = Range(nodes)
  /\ ~PastStackInstall => stack = EmptyMap

\* C15: the protocol stack is installed on every node exactly once,
\* whether zero, one or several links name the node, and processing a
\* link never installs it again.
C15_StackInstalledExactlyOnce ==
  []C15_StackOncePerNode
  /\ [][pc = "links" => stack' = stack]_vars

\* node 1 is an endpoint of three links, node 2 of none
C15_Witness ==
  /\ PastLinkLoop
  /\ Len(nodes) = 2
  /\ Len(links) = 3
  /\ \A k \in 1..3 : links[k].a = 1 /\ links[k].b = 1
  /\ stack = [h \in {1, 2} |-> 1]

\* the endpoint names of a link spec that are not declared node names
MissingEndpoints(l) == {l.source, l.target} \ Declared

\* C17 (as claimed): a failure on a repeated node name or on a link with
\* an undeclared endpoint ends the process with a non-zero status and a
\* diagnostic naming the repeated node, resp. the missing endpoint.
C17_DiagnosticNamesOffender ==
  /\ (~Running /\ failedAt = "nodes" /\ DuplicateFirst) =>
        /\ exitCode > 0
        /\ errorName = cfg.nodes[FirstRepeat].name
  /\ (/\ ~Running
      /\ failedAt = "links"
      /\ i < LinkCount
      /\ FailedLink.source # Undefined
      /\ ~LinkDeclared(FailedLink)) =>
        /\ exitCode > 0
        /\ errorName \in MissingEndpoints(FailedLink)

\* C18 (as claimed): every device installed for a link belongs to a link
\* whose source and target both resolve to registered nodes, and no lookup
\* leaves an empty handle behind for a missing name.
C18_NoNullEndpoint ==
  /\ \A d \in Range(devices) :
        LET l == cfg.links[d.link + 1]
        IN /\ NamesFind(names, l.source) # NULL
           /\ NamesFind(names, l.target) # NULL
  /\ \A n \in DOMAIN nodeMap : nodeMap[n] # NULL

\* state part of C19: while the link loop runs the address counter equals
\* the loop position, every link carries the position it was created at
\* and a subnet numbered by it, and every capture refers to a link by that
\* same number.
C19_OneIndexPerLink ==
  /\ pc = "links" => linkCounter = i
  /\ \A k \in 1..Len(links) :
        /\ links[k].index = k - 1
        /\ links[k].subnet[3] = links[k].index
  /\ \A p \in pcaps :
        \E k \in 1..Len(links) :
           links[k].index = p.link /\ links[k].subnet[3] = p.link

\* C19: the index that numbers a link's subnet is the index that decides
\* its capture, and a link's index and subnet never change once assigned.
C19_AddressAndCaptureIndexAgree ==
  []C19_OneIndexPerLink
  /\ [][\A k \in 1..Len(links) :
            k <= Len(links') /\ links'[k] = links[k]]_vars

C19_Witness ==
  /\ variant = "satsim"
  /\ Len(links) = 3
  /\ linkCounter = 3
  /\ links[3].subnet = <<10, 1, 2, 0>>
  /\ \E p \in pcaps : p.link = 2 /\ p.prefix = "dst_"

InLoop == pc \in {"running", "main_running"}

\* the last event loop entered has returned and the engine is destroyed
LoopOver ==
  /\ simDestroys = simRuns
  /\ Len(life) >= 2
  /\ life[Len(life) - 1] = "STOPPED"
  /\ life[Len(life)] = "DESTROYED"

\* state part of C20: the experiment program has queued the stop event
\* when the loop starts, simulated time never passes the stop time, and the
\* loop of the experiment returns at the stop time.
C20_StopScheduled ==
  /\ (variant = "satsim" /\ simRuns >= 1) => stopAt = StopTime
  /\ stopAt >= 0 => now <= stopAt
  /\ (variant = "satsim" /\ pc \in {"destroy", "return"}) => now = StopTime

\* C20: once the event loop is entered it returns (at the stop time in the
\* experiment program, although the sender never runs out of data) and the
\* engine is then destroyed.
C20_RunningLeadsToDestroyed ==
  []C20_StopScheduled
  /\ (InLoop ~> LoopOver)

C20_Witness ==
  /\ variant = "satsim"
  /\ pc = "return"
  /\ now = StopTime
  /\ \E app \in apps : app.kind = "BulkSend" /\ app.maxBytes = 0
  /\ LoopOver

\* the experiment program has passed its Start/Stop calls
PastSchedule == variant = "satsim" /\ (pc = "run" \/ simRuns >= 1)

Senders == {app \in apps : app.kind = "BulkSend"}
Sinks == {app \in apps : app.kind = "PacketSink"}

\* C21: once the experiment program has made its Start calls there is one
\* sender and one receiver, both start at simulated time 0, the receiver
\* is bound to the wildcard address on port 50000, and the port the sender
\* connects to is the port the receiver is bound to.
C21_StartAtZeroSamePort ==
  PastSchedule =>
    /\ Cardinality(Senders) = 1
    /\ Cardinality(Sinks) = 1
    /\ apps = Senders \cup Sinks
    /\ \A app \in apps : app.start = 0
    /\ \A sink \in Sinks :
         /\ sink.remote = <<0, 0, 0, 0>>
         /\ sink.port = 50000
         /\ \A sender \in Senders : sender.port = sink.port

C21_Witness ==
  /\ PastSchedule
  /\ pc = "running"
  /\ now > 0
  /\ \E sender \in Senders, sink \in Sinks :
       /\ sender.start = 0 /\ sink.start = 0
       /\ sender.port = sink.port
       /\ sender.node # sink.node

\* state part of C23: every link created so far carries the data_rate and
\* the delay string of the link spec at its own position, as written.
C23_OwnRateAndDelay ==
  /\ Len(links) <= LinkCount
  /\ \A k \in 1..Len(links) :
       /\ links[k].rate = cfg.links[k].data_rate
       /\ links[k].delay = cfg.links[k].delay

\* frame part of C23: a step leaves every link created before it as it was
C23_EarlierLinksKept ==
  /\ Len(links') >= Len(links)
  /\ \A k \in 1..Len(links) : links'[k] = links[k]

\* C23: each link is created with exactly the data_rate and delay strings
\* of its own link spec, and the rate and delay of one link spec never
\* change the parameters of another link.
C23_LinkParametersOwnAndFramed ==
  []C23_OwnRateAndDelay /\ [][C23_EarlierLinksKept]_vars

C23_Witness ==
  /\ Len(links) >= 2
  /\ links[1].rate = "5Mbps" /\ links[2].rate = "10Mbps"
  /\ links[1].delay = "5ms" /\ links[2].delay = "2ms"
  /\ cfg.links[1].data_rate = "5Mbps" /\ cfg.links[2].data_rate = "10Mbps"
  /\ cfg.links[1].delay = "5ms" /\ cfg.links[2].delay = "2ms"

\* the subnet and the two host addresses the addressing scheme gives to
\* the link with 0-based index k: a function of k alone
AddressPlan(k) ==
  [subnet |-> <<10, 1, k, 0>>,
   addrs |-> <<<<10, 1, k, 1>>, <<10, 1, k, 2>>>>]

\* the link-index-to-address map of the build so far
AddressMap ==
  [k \in 1..Len(links) |->
     [subnet |-> links[k].subnet, addrs |-> links[k].addrs]]

\* C22: in every build, of every config and by either program, the
\* link-index-to-subnet map and the host addresses of the endpoints are
\* the same function of the link index alone; so two builds agree at every
\* index they both reach, whatever the names, rates and delays of the
\* link specs are.
C22_AddressesByIndexOnly ==
  \A k \in 1..Len(links) :
     links[k].subnet # NoSubnet => AddressMap[k] = AddressPlan(k - 1)

C22_Witness ==
  /\ Len(links) = 3
  /\ cfg.links[1] = cfg.links[2]
  /\ cfg.links[3].source # cfg.links[2].source
  /\ cfg.links[3].data_rate # cfg.links[2].data_rate
  /\ cfg.links[3].delay # cfg.links[2].delay
  /\ AddressMap[1] # AddressMap[2]
  /\ AddressMap[3] = AddressPlan(2)

\* the addresses assigned to the devices of node n
AddressesOf(n) ==
  {links[k].addrs[1] : k \in {j \in Addressed : links[j].a = n}}
    \cup {links[k].addrs[2] : k \in {j \in Addressed : links[j].b = n}}

\* C24 (as claimed): for a valid config with at least one link, the
\* address the installed sender connects to is the target-end address of
\* the last link and is an address of the destination node, on which the
\* receiver is installed.
C24_SenderTargetsDestinationNode ==
  (ValidConfig /\ SimpleLinks /\ LinkCount >= 1 /\ variant = "satsim") =>
     \A sender \in Senders :
        /\ sender.remote = links[LinkCount].addrs[2]
        /\ sender.remote \in AddressesOf(dstNode)
        /\ \A sink \in Sinks : sender.remote \in AddressesOf(sink.node)

\* an application is installed or an event loop has been entered
ExperimentUnderWay == apps # {} \/ simRuns >= 1

\* C25 (as claimed): the experiment program installs an application or
\* enters the event loop only when the source node handle, the destination
\* node handle and the sender's destination address have all been set,
\* hence never for a config with no node or no link.
C25_ExperimentOnlyWhenEndpointsSet ==
  (variant = "satsim" /\ ExperimentUnderWay) =>
     /\ srcNode # NULL
     /\ dstNode # NULL
     /\ dstAddress # UnsetAddress
     /\ NodeCount >= 1
     /\ LinkCount >= 1

CaptureLinks(prefix) == {p.link : p \in {q \in pcaps : q.prefix = prefix}}

\* C26: in the experiment program the source and the destination role are
\* on two different nodes when the config declares two or more nodes; when
\* it declares two or more links the source-side and the destination-side
\* capture are on two different links; with exactly one link both are on
\* that link, the source side on its device 0 and the destination side on
\* its device 1.
C26_DistinctRolesAndCaptures ==
  variant = "satsim" =>
    /\ (PastNodeLoop /\ NodeCount >= 2) =>
          /\ srcNode # NULL
          /\ dstNode # NULL
          /\ srcNode # dstNode
    /\ (PastLinkLoop /\ LinkCount >= 2) =>
          /\ Cardinality(CaptureLinks("src_")) = 1
          /\ Cardinality(CaptureLinks("dst_")) = 1
          /\ CaptureLinks("src_") \cap CaptureLinks("dst_") = {}
          /\ Cardinality(pcaps) = 2
    /\ (PastLinkLoop /\ LinkCount = 1) =>
          /\ Cardinality(pcaps) = 2
          /\ \A p \in pcaps :
               /\ p.link = 0
               /\ p.prefix = "src_" => p.dev = 0
               /\ p.prefix = "dst_" => p.dev = 1
          /\ {p.prefix : p \in pcaps} = {"src_", "dst_"}
          /\ {p.dev : p \in pcaps} = {0, 1}

C26_Witness ==
  /\ variant = "satsim"
  /\ PastLinkLoop
  /\ NodeCount = 2
  /\ srcNode = 1 /\ dstNode = 2
  /\ LinkCount = 1
  /\ CaptureLinks("src_") = {0}
  /\ CaptureLinks("dst_") = {0}
  /\ {p.dev : p \in pcaps} = {0, 1}
====
